---- MODULE Spec2Model ----
(***************************************************************************)
(* tsdump (plugins/sudoers/tsdump.c): the scan of a sudo time stamp file.  *)
(* Memory is modelled at byte granularity: the on-disk file and the slot   *)
(* buffer `cur' are sequences of bytes, and the three views of the union   *)
(* timestamp_entry_storage (common, v1, v2) are decoded from those bytes,  *)
(* little-endian, with the LP64 layout of the structures of check.h.       *)
(*                                                                         *)
(* bsdauth (plugins/sudoers/auth/bsdauth.c): the BSD authentication        *)
(* method, its three entry points called by the sudo auth front end.       *)
(* Strings are sequences of one-character strings.                         *)
(***************************************************************************)
EXTENDS Integers, Sequences, FiniteSets, TLC

VARIABLES
    pc,        \* position of main: getopt, gettime, path, open, read, ...
    args,      \* options getopt has not yet returned ("f", "u", "?")
    fname,     \* char *fname: "NULL", "optarg" or "timedir/user"
    user,      \* const char *user: "NULL", "optarg" or "pw_name"
    linux,     \* whether __linux__ is defined for this build
    timediff,  \* struct timespec timediff, [sec, nsec]
    file,      \* the bytes of the opened time stamp file
    fpos,      \* the file offset of fd
    cur,       \* union timestamp_entry_storage cur, SizeofCur bytes
    pos,       \* off_t pos of the current iteration
    nread,     \* ssize_t nread of the current iteration
    valid,     \* bool valid of the current iteration
    stdout,    \* what was written to standard output, in order
    stderr,    \* what was written to standard error, in order
    status,    \* exit status once the process has exited, else -1
    apc,       \* the auth front end: "start", "ready", "failed", "done", ...
    lc,        \* state.lc, the login class: "none", "open", "closed", ...
    as,        \* state.as, the auth session: "none", "open", "closed", ...
    authData,  \* whether auth->data points at state
    loginStyle,\* the global login_style
    sigchld,   \* the disposition of SIGCHLD: "caller" or "SIG_DFL"
    passbuf,   \* the buffer auth_getpass returned last: "none", "secret", "zeroed"
    shown,     \* the prompts auth_getpass displayed, in order
    logged,    \* what log_warning was given, in order
    osa,       \* sigaction_t osa of bsdauth_verify
    pass,      \* char *pass of bsdauth_verify: "NULL", "empty" or "secret"
    rval,      \* the value the last entry point returned
    call,      \* the last entry point called: its arguments and what the
               \* library calls it made answered
    nverify    \* how many times bsdauth_verify was called

tsvars == <<pc, args, fname, user, linux, timediff, file, fpos, cur, pos,
            nread, valid, stdout, stderr, status>>

authvars == <<apc, lc, as, authData, loginStyle, sigchld, passbuf, shown,
              logged, osa, pass, rval, call, nverify>>

vars == <<tsvars, authvars>>

----------------------------------------------------------------------------
(* Bounds of the model. *)

\* most records concatenated into one log file
MaxRecs == 2
\* most options on the command line
MaxArgs == 2
\* most calls of bsdauth_verify between bsdauth_init and bsdauth_cleanup
MaxVerify == 2
\* stdout and stderr keep their first MaxOut events (later ones are dropped,
\* so that a scan that never ends is a cycle of finitely many states)
MaxOut == 6

----------------------------------------------------------------------------
(* Layout of struct timestamp_entry_v1 / struct timestamp_entry (check.h),
   LP64: unsigned short 2, uid_t 4, pid_t 4, struct timespec 8+8, dev_t 8. *)

SizeofV1 == 40
SizeofV2 == 56
\* sizeof(union timestamp_entry_storage): its largest member
SizeofCur == 56

TS_VERSION == 2
TS_GLOBAL == 1
TS_TTY == 2
TS_PPID == 3
TS_LOCKEXCL == 4
TS_DISABLED == 1
TS_ANYUID == 2

\* byte offsets of the members (0-based)
OffVersion == 0
OffSize == 2
OffType == 4
OffFlags == 6
OffAuthUid == 8
OffSid == 12
OffStartV2 == 16
OffTsV2 == 32
OffUV2 == 48
OffTsV1 == 16
OffUV1 == 32

----------------------------------------------------------------------------
(* Bytes. *)

Min(a, b) == IF a < b THEN a ELSE b

\* little-endian encoding of 0 <= n < 2^31 in w bytes (w <= 4 or w = 8)
LE(n, w) ==
    LET b4 == <<n % 256, (n \div 256) % 256, (n \div 65536) % 256,
                (n \div 16777216) % 256>>
    IN  IF w <= 4 THEN SubSeq(b4, 1, w) ELSE b4 \o <<0, 0, 0, 0>>

RECURSIVE Zeros(_)
Zeros(w) == IF w = 0 THEN <<>> ELSE <<0>> \o Zeros(w - 1)

\* the len bytes of buf at byte offset off
Bytes(buf, off, len) == SubSeq(buf, off + 1, off + len)

\* buf with the bytes at offset off replaced by b
Put(buf, off, b) ==
    SubSeq(buf, 1, off) \o b \o SubSeq(buf, off + Len(b) + 1, Len(buf))

\* an unsigned short member
U16(buf, off) == buf[off + 1] + 256 * buf[off + 2]

\* the value of a little-endian field that fits 31 bits
ToInt(b) ==
    b[1] + 256 * b[2] + 65536 * b[3] + 16777216 * b[4]

Small(b) == b[4] < 128 /\ \A i \in 5..Len(b) : b[i] = 0

IsZero(b) == \A i \in 1..Len(b) : b[i] = 0

\* an 8-byte integer as three limbs of 24, 24 and 16 bits
Limb0(a) == a[1] + 256 * a[2] + 65536 * a[3]
Limb1(a) == a[4] + 256 * a[5] + 65536 * a[6]
Limb2(a) == a[7] + 256 * a[8]

Carry0(a, b) == (Limb0(a) + Limb0(b)) \div 16777216
Carry1(a, b) == (Limb1(a) + Limb1(b) + Carry0(a, b)) \div 16777216

\* a + b modulo 2^64, for 8-byte a and b
AddBytes(a, b) ==
    LE((Limb0(a) + Limb0(b)) % 16777216, 3)
    \o LE((Limb1(a) + Limb1(b) + Carry0(a, b)) % 16777216, 3)
    \o LE((Limb2(a) + Limb2(b) + Carry1(a, b)) % 65536, 2)

\* the carry out of the most significant byte of a + b
CarryOut(a, b) == (Limb2(a) + Limb2(b) + Carry1(a, b)) \div 65536

\* -a modulo 2^64
NegBytes(a) ==
    AddBytes(<<255 - a[1], 255 - a[2], 255 - a[3], 255 - a[4],
               255 - a[5], 255 - a[6], 255 - a[7], 255 - a[8]>>, LE(1, 8))

Nsec1e9 == LE(1000000000, 8)
MinusNsec1e9 == NegBytes(Nsec1e9)

\* signed 64-bit comparison nsec >= 1000000000
NsecOverflows(nsec) == nsec[8] < 128 /\ CarryOut(nsec, MinusNsec1e9) = 1

----------------------------------------------------------------------------
(* struct timespec arithmetic (sudo_util.h). *)

\* sudo_timespecisset on the 16 bytes of a struct timespec
TimespecIsSet(t) == ~IsZero(t)

\* the loop of sudo_timespecadd: while (tv_nsec >= 1000000000) { tv_sec++;
\* tv_nsec -= 1000000000; }  (each sum is taken from a singleton set so that
\* it is evaluated once)
RECURSIVE TimespecCarry(_, _)
TimespecCarry(sec, nsec) ==
    IF NsecOverflows(nsec)
    THEN CHOOSE r \in {TimespecCarry(s, n) :
                          s \in {AddBytes(sec, LE(1, 8))},
                          n \in {AddBytes(nsec, MinusNsec1e9)}} : TRUE
    ELSE sec \o nsec

\* sudo_timespecadd(t, off, t) on the 16 bytes of t; off is [sec, nsec]
TimespecAdd(t, off) ==
    CHOOSE r \in {TimespecCarry(s, n) :
                     s \in {AddBytes(Bytes(t, 0, 8), LE(off.sec, 8))},
                     n \in {AddBytes(Bytes(t, 8, 8), LE(off.nsec, 8))}} : TRUE

RECURSIVE TimespecBorrow(_, _)
TimespecBorrow(sec, nsec) ==
    IF nsec < 0 THEN TimespecBorrow(sec - 1, nsec + 1000000000)
    ELSE [sec |-> sec, nsec |-> nsec]

\* sudo_timespecsub(a, b, res)
TimespecSub(a, b) == TimespecBorrow(a.sec - b.sec, a.nsec - b.nsec)

----------------------------------------------------------------------------
(* The views of union timestamp_entry_storage. *)

Version(u) == U16(u, OffVersion)
Size(u) == U16(u, OffSize)
Type(u) == U16(u, OffType)
Flags(u) == U16(u, OffFlags)
AuthUid(u) == Bytes(u, OffAuthUid, 4)
Sid(u) == Bytes(u, OffSid, 4)
\* members of the v2 view
StartTime(u) == Bytes(u, OffStartV2, 16)
Ts(u) == Bytes(u, OffTsV2, 16)
TtyDev(u) == Bytes(u, OffUV2, 8)
Ppid(u) == Bytes(u, OffUV2, 4)
\* members of the v1 view
TsV1(u) == Bytes(u, OffTsV1, 16)
TtyDevV1(u) == Bytes(u, OffUV1, 8)
PpidV1(u) == Bytes(u, OffUV1, 4)

----------------------------------------------------------------------------
(* valid_entry: the verdict and what it prints. *)

\* valid_entry without the size check of v1 records
ValidEntryAnySizeV1(u, p) ==
    CASE Version(u) = 1 -> [ok |-> TRUE, printed |-> <<>>]
      [] Version(u) = 2 ->
           IF Size(u) # SizeofV2
           THEN [ok |-> FALSE,
                 printed |-> <<[kind |-> "wrong sized v2 record", pos |-> p,
                                got |-> Size(u), expected |-> SizeofV2]>>]
           ELSE [ok |-> TRUE, printed |-> <<>>]
      [] OTHER ->
           [ok |-> FALSE,
            printed |-> <<[kind |-> "unknown time stamp entry version", pos |-> p,
                           got |-> Version(u), expected |-> 0]>>]

ValidEntry(u, p) ==
    CASE Version(u) = 1 ->
           IF Size(u) # SizeofV1
           THEN [ok |-> FALSE,
                 printed |-> <<[kind |-> "wrong sized v1 record", pos |-> p,
                                got |-> Size(u), expected |-> SizeofV1]>>]
           ELSE [ok |-> TRUE, printed |-> <<>>]
      [] Version(u) = 2 ->
           IF Size(u) # SizeofV2
           THEN [ok |-> FALSE,
                 printed |-> <<[kind |-> "wrong sized v2 record", pos |-> p,
                                got |-> Size(u), expected |-> SizeofV2]>>]
           ELSE [ok |-> TRUE, printed |-> <<>>]
      [] OTHER ->
           [ok |-> FALSE,
            printed |-> <<[kind |-> "unknown time stamp entry version", pos |-> p,
                           got |-> Version(u), expected |-> 0]>>]

----------------------------------------------------------------------------
(* type2string and print_flags. *)

Type2String(type) ==
    CASE type = TS_LOCKEXCL -> [name |-> "TS_LOCKEXCL", hex |-> 0]
      [] type = TS_GLOBAL -> [name |-> "TS_GLOBAL", hex |-> 0]
      [] type = TS_TTY -> [name |-> "TS_TTY", hex |-> 0]
      [] type = TS_PPID -> [name |-> "TS_PPID", hex |-> 0]
      [] OTHER -> [name |-> "UNKNOWN", hex |-> type]

\* ISSET(flags, bit) for a single-bit mask
IsSet(flags, bit) == (flags \div bit) % 2 = 1
\* CLR(flags, bit)
Clr(flags, bit) == IF IsSet(flags, bit) THEN flags - bit ELSE flags

\* the separator printf("%s...", first ? "" : ", ") writes before an item
Sep(first) == IF first THEN <<>> ELSE <<[name |-> ", ", hex |-> 0]>>

\* print_flags with the residue taken from the flags as passed (no CLR)
PrintFlagsNoClr(flags) ==
    LET d == IF IsSet(flags, TS_DISABLED)
             THEN <<[name |-> "TS_DISABLED", hex |-> 0]>> ELSE <<>>
        first1 == d = <<>>
        a == IF IsSet(flags, TS_ANYUID)
             THEN Sep(first1) \o <<[name |-> "TS_ANYUID", hex |-> 0]>> ELSE <<>>
        first2 == first1 /\ a = <<>>
        r == IF flags # 0
             THEN Sep(first2) \o <<[name |-> "0x", hex |-> flags]>> ELSE <<>>
    IN  d \o a \o r

\* what print_flags writes after "flags: " and before the newline, in order
PrintFlags(flags) ==
    LET d == IF IsSet(flags, TS_DISABLED)
             THEN <<[name |-> "TS_DISABLED", hex |-> 0]>> ELSE <<>>
        f1 == Clr(flags, TS_DISABLED)
        first1 == d = <<>>
        a == IF IsSet(f1, TS_ANYUID)
             THEN Sep(first1) \o <<[name |-> "TS_ANYUID", hex |-> 0]>> ELSE <<>>
        f2 == Clr(f1, TS_ANYUID)
        first2 == first1 /\ a = <<>>
        r == IF f2 # 0
             THEN Sep(first2) \o <<[name |-> "0x", hex |-> f2]>> ELSE <<>>
    IN  d \o a \o r

----------------------------------------------------------------------------
(* convert_entry. *)

\* convert_entry copying the v1 union whatever the type
ConvertVersionCopiesUnion(record) ==
    IF Version(record) # TS_VERSION
    THEN IF Version(record) # 1
         THEN [ok |-> FALSE, rec |-> record,
               warned |-> <<[kind |-> "unexpected record version",
                             got |-> Version(record)]>>]
         ELSE [ok |-> TRUE,
               rec |-> Put(Put(Put(record, OffStartV2, Zeros(16)),
                               OffTsV2, TsV1(record)),
                           OffUV2, TtyDevV1(record)),
               warned |-> <<>>]
    ELSE [ok |-> TRUE, rec |-> record, warned |-> <<>>]

\* lines 244-262: the version check and the v1 -> v2 conversion in place
ConvertVersion(record) ==
    IF Version(record) # TS_VERSION
    THEN IF Version(record) # 1
         THEN [ok |-> FALSE, rec |-> record,
               warned |-> <<[kind |-> "unexpected record version",
                             got |-> Version(record)]>>]
         ELSE LET orig == record
                  r1 == Put(record, OffAuthUid, AuthUid(orig))
                  r2 == Put(r1, OffSid, Sid(orig))
                  r3 == Put(r2, OffStartV2, Zeros(16))
                  r4 == Put(r3, OffTsV2, TsV1(orig))
                  r5 == IF Type(r4) = TS_TTY THEN Put(r4, OffUV2, TtyDevV1(orig))
                        ELSE IF Type(r4) = TS_PPID THEN Put(r4, OffUV2, PpidV1(orig))
                        ELSE Put(r4, OffUV2, Zeros(8))
              IN  [ok |-> TRUE, rec |-> r5, warned |-> <<>>]
    ELSE [ok |-> TRUE, rec |-> record, warned |-> <<>>]

\* the start_time adjustment compiled in whatever the platform
ConvertStartTimeAlways(record, off, onLinux) ==
    IF TimespecIsSet(StartTime(record))
    THEN Put(record, OffStartV2, TimespecAdd(StartTime(record), off))
    ELSE record

\* lines 264-268: on Linux, start_time moved from boot time to real time
ConvertStartTime(record, off, onLinux) ==
    IF onLinux /\ TimespecIsSet(StartTime(record))
    THEN Put(record, OffStartV2, TimespecAdd(StartTime(record), off))
    ELSE record

\* the adjustment of ts without the sudo_timespecisset test
ConvertTsUnconditional(record, off) ==
    Put(record, OffTsV2, TimespecAdd(Ts(record), off))

\* lines 270-272: ts moved from monotonic time to real time
ConvertTs(record, off) ==
    IF TimespecIsSet(Ts(record))
    THEN Put(record, OffTsV2, TimespecAdd(Ts(record), off))
    ELSE record

----------------------------------------------------------------------------
(* dump_entry: the block it prints, line by line.  ttyname tells whether
   sudo_ttyname_dev resolved the device. *)

Line(l, v) == [label |-> l, val |-> v]

\* dump_entry printing the start time without the sudo_timespecisset test
DumpEntryStartTimeAlways(entry, p, ttyname) ==
    [kind |-> "block", pos |-> p, lines |->
        <<Line("position", p),
          Line("version", Version(entry)),
          Line("size", Size(entry)),
          Line("type", Type2String(Type(entry))),
          Line("flags", PrintFlags(Flags(entry))),
          Line("auth uid", AuthUid(entry)),
          Line("session ID", Sid(entry)),
          Line("start time", Bytes(StartTime(entry), 0, 8))>>
        \o (IF TimespecIsSet(Ts(entry))
            THEN <<Line("time stamp", Bytes(Ts(entry), 0, 8))>> ELSE <<>>)
        \o (IF Type(entry) = TS_TTY
            THEN IF ttyname
                 THEN <<Line("terminal", [name |-> TRUE, dev |-> TtyDev(entry)])>>
                 ELSE <<Line("terminal",
                             [name |-> FALSE, dev |-> Bytes(TtyDev(entry), 0, 4)])>>
            ELSE IF Type(entry) = TS_PPID
                 THEN <<Line("parent pid", Ppid(entry))>>
                 ELSE <<>>)
        \o <<Line("", "")>>]

\* lines 277-305: the block dump_entry prints for the record at offset p
DumpEntry(entry, p, ttyname) ==
    [kind |-> "block", pos |-> p, lines |->
        <<Line("position", p),
          Line("version", Version(entry)),
          Line("size", Size(entry)),
          Line("type", Type2String(Type(entry))),
          Line("flags", PrintFlags(Flags(entry))),
          Line("auth uid", AuthUid(entry)),
          Line("session ID", Sid(entry))>>
        \o (IF TimespecIsSet(StartTime(entry))
            THEN <<Line("start time", Bytes(StartTime(entry), 0, 8))>> ELSE <<>>)
        \o (IF TimespecIsSet(Ts(entry))
            THEN <<Line("time stamp", Bytes(Ts(entry), 0, 8))>> ELSE <<>>)
        \o (IF Type(entry) = TS_TTY
            THEN IF ttyname
                 THEN <<Line("terminal", [name |-> TRUE, dev |-> TtyDev(entry)])>>
                 ELSE <<Line("terminal",
                             [name |-> FALSE, dev |-> Bytes(TtyDev(entry), 0, 4)])>>
            ELSE IF Type(entry) = TS_PPID
                 THEN <<Line("parent pid", Ppid(entry))>>
                 ELSE <<>>)
        \o <<Line("", "")>>]

----------------------------------------------------------------------------
(* Inputs: time stamp files, command lines, clocks, stack contents. *)

RecV2(version, size, type, flags, uid, sid, ssec, snsec, tsec, tnsec, u) ==
    LE(version, 2) \o LE(size, 2) \o LE(type, 2) \o LE(flags, 2) \o LE(uid, 4)
    \o LE(sid, 4) \o LE(ssec, 8) \o LE(snsec, 8) \o LE(tsec, 8) \o LE(tnsec, 8)
    \o LE(u, 8)

RecV1(version, size, type, flags, uid, sid, tsec, tnsec, u) ==
    LE(version, 2) \o LE(size, 2) \o LE(type, 2) \o LE(flags, 2) \o LE(uid, 4)
    \o LE(sid, 4) \o LE(tsec, 8) \o LE(tnsec, 8) \o LE(u, 8)

\* v2, tty, time stamp set, start time unset
RecTty2 == RecV2(2, SizeofV2, TS_TTY, 0, 1000, 77, 0, 0, 50, 600000000, 34817)
\* v2, ppid, start time set, time stamp unset, flags DISABLED|ANYUID|0x10
RecPpid2 == RecV2(2, SizeofV2, TS_PPID, 19, 0, 78, 5, 700000000, 0, 0, 4321)
\* v2, global, both times set
RecGlobal2 == RecV2(2, SizeofV2, TS_GLOBAL, 1, 1000, 77, 9, 1, 60, 2, 0)
\* v2, lockexcl, no time set
RecLock2 == RecV2(2, SizeofV2, TS_LOCKEXCL, 0, 1003, 82, 0, 0, 0, 0, 0)
\* v2, a type tsdump does not know, union not zero
RecOther2 == RecV2(2, SizeofV2, 9, 0, 1004, 83, 0, 0, 61, 0, 555)
\* v1, ppid, flags DISABLED|ANYUID
RecPpid1 == RecV1(1, SizeofV1, TS_PPID, 3, 1000, 79, 70, 3, 1234)
\* v1, tty, whose tv_nsec 0x00280001 reads as the header "version 1, size 40"
RecTty1 == RecV1(1, SizeofV1, TS_TTY, 2, 1001, 80, 80, 2621441, 34818)
\* v1, global, time stamp unset, union not zero, flags 0x10
RecGlobal1 == RecV1(1, SizeofV1, TS_GLOBAL, 16, 1002, 81, 0, 0, 999)
\* unknown version
RecBadVersion == RecV2(3, SizeofV2, TS_TTY, 0, 1000, 77, 0, 0, 50, 1, 34817)
\* v1 with the size of no layout
RecBadSize == RecV1(1, 48, TS_PPID, 0, 1000, 79, 70, 3, 1234)
\* a slot of zero bytes
RecZero == Zeros(SizeofV2)

WellFormedRecs ==
    {RecTty2, RecPpid2, RecGlobal2, RecLock2, RecOther2, RecPpid1, RecTty1,
     RecGlobal1}
Templates == WellFormedRecs \cup {RecBadVersion, RecBadSize, RecZero}

RECURSIVE Logs(_)
Logs(n) ==
    IF n = 0 THEN {<<>>}
    ELSE LET shorter == Logs(n - 1)
         IN  shorter \cup {l \o r : l \in shorter, r \in Templates}

\* bytes missing from the end of the file (a writer caught mid-append, a
\* damaged file)
Cuts == {0, 3, 36}

Files ==
    {SubSeq(l, 1, Len(l) - Min(c, Len(l))) : l \in Logs(MaxRecs), c \in Cuts}

RECURSIVE ArgLists(_)
ArgLists(n) ==
    IF n = 0 THEN {<<>>}
    ELSE LET shorter == ArgLists(n - 1)
         IN  shorter \cup {Append(a, o) : a \in shorter, o \in {"f", "u", "?"}}

\* sudo_gettime_real and sudo_gettime_mono
RealTimes == {[sec |-> 107, nsec |-> 700000000]}
MonoTimes == {[sec |-> 7, nsec |-> 200000000], [sec |-> 0, nsec |-> 900000000]}

\* what the automatic variable cur may hold before the first read
StackContents ==
    {Zeros(SizeofCur),
     RecV2(2, SizeofV2, TS_PPID, 0, 4242, 42, 11, 0, 12, 0, 4242)}

----------------------------------------------------------------------------
(* main. *)

Emit(channel, events) ==
    LET all == channel \o events IN SubSeq(all, 1, Min(Len(all), MaxOut))

\* bsdauth is not in use
AuthOff ==
    /\ apc = "off"
    /\ lc = "none"
    /\ as = "none"
    /\ authData = FALSE
    /\ loginStyle = "unset"
    /\ sigchld = "caller"
    /\ passbuf = "none"
    /\ shown = <<>>
    /\ logged = <<>>
    /\ osa = "unset"
    /\ pass = "NULL"
    /\ rval = "none"
    /\ call = [name |-> "none"]
    /\ nverify = 0

Init ==
    /\ pc = "getopt"
    /\ args \in ArgLists(MaxArgs)
    /\ fname = "NULL"
    /\ user = "NULL"
    /\ linux \in BOOLEAN
    /\ timediff = [sec |-> 0, nsec |-> 0]
    /\ file = <<>>
    /\ fpos = 0
    /\ cur \in StackContents
    /\ pos = 0
    /\ nread = 0
    /\ valid = FALSE
    /\ stdout = <<>>
    /\ stderr = <<>>
    /\ status = -1
    /\ AuthOff

\* usage(): the usage line on stderr, exit(1)
Usage(before) ==
    /\ stderr' = Emit(stderr, before \o <<[kind |-> "usage"]>>)
    /\ pc' = "usage"
    /\ status' = 1

\* sudo_fatal / sudo_fatalx: the message on stderr, exit(EXIT_FAILURE)
Fatal(msg) ==
    /\ stderr' = Emit(stderr, <<[kind |-> "fatal", msg |-> msg]>>)
    /\ pc' = "fatal"
    /\ status' = 1

\* lines 89-100: one turn of the getopt loop that returns an option
GetoptOption ==
    /\ pc = "getopt"
    /\ args # <<>>
    /\ args' = Tail(args)
    /\ CASE Head(args) = "f" ->
              /\ fname' = "optarg"
              /\ UNCHANGED <<user, pc, stderr, status>>
         [] Head(args) = "u" ->
              /\ user' = "optarg"
              /\ UNCHANGED <<fname, pc, stderr, status>>
         [] OTHER ->
              /\ Usage(<<>>)
              /\ UNCHANGED <<fname, user>>
    /\ UNCHANGED <<linux, timediff, file, fpos, cur, pos, nread, valid, stdout>>
    /\ UNCHANGED authvars

\* the end of option parsing without the -f/-u test
GetoptEndNoExclusion ==
    /\ pc = "getopt"
    /\ args = <<>>
    /\ pc' = "gettime"
    /\ UNCHANGED <<args, fname, user, linux, timediff, file, fpos, cur, pos,
                   nread, valid, stdout, stderr, status>>
    /\ UNCHANGED authvars

\* lines 101-107: getopt returns -1; -f and -u are mutually exclusive
GetoptEnd ==
    /\ pc = "getopt"
    /\ args = <<>>
    /\ IF fname # "NULL" /\ user # "NULL"
       THEN Usage(<<[kind |-> "warnx",
                     msg |-> "the -f and -u flags are mutually exclusive"]>>)
       ELSE /\ pc' = "gettime"
            /\ UNCHANGED <<stderr, status>>
    /\ UNCHANGED <<args, fname, user, linux, timediff, file, fpos, cur, pos,
                   nread, valid, stdout>>
    /\ UNCHANGED authvars

\* lines 109-114: timediff = real time - monotonic time
GetTime ==
    /\ pc = "gettime"
    /\ \/ /\ \E now \in RealTimes, mono \in MonoTimes :
                timediff' = TimespecSub(now, mono)
          /\ pc' = "path"
          /\ UNCHANGED <<stderr, status>>
       \/ /\ Fatal("unable to get current time")
          /\ UNCHANGED timediff
       \/ /\ Fatal("unable to read the clock")
          /\ UNCHANGED timediff
    /\ UNCHANGED <<args, fname, user, linux, file, fpos, cur, pos, nread, valid,
                   stdout>>
    /\ UNCHANGED authvars

\* lines 116-126: the default file name, from the user name
ResolvePath ==
    /\ pc = "path"
    /\ IF fname = "NULL"
       THEN \/ /\ fname' = "timedir/user"
               /\ user' = IF user = "NULL" THEN "pw_name" ELSE user
               /\ pc' = "open"
               /\ UNCHANGED <<stderr, status>>
            \/ /\ user = "NULL"
               /\ Fatal("unknown uid")
               /\ UNCHANGED <<fname, user>>
            \/ /\ Fatal("unable to allocate memory")
               /\ user' = IF user = "NULL" THEN "pw_name" ELSE user
               /\ UNCHANGED fname
       ELSE /\ pc' = "open"
            /\ UNCHANGED <<fname, user, stderr, status>>
    /\ UNCHANGED <<args, linux, timediff, file, fpos, cur, pos, nread, valid,
                   stdout>>
    /\ UNCHANGED authvars

\* lines 128-130: open(fname, O_RDONLY)
Open ==
    /\ pc = "open"
    /\ \/ /\ file' \in Files
          /\ pc' = "read"
          /\ UNCHANGED <<stderr, status>>
       \/ /\ Fatal("unable to open")
          /\ UNCHANGED file
    /\ fpos' = 0
    /\ UNCHANGED <<args, fname, user, linux, timediff, cur, pos, nread, valid,
                   stdout>>
    /\ UNCHANGED authvars

\* the bytes read(fd, &cur, sizeof(cur)) returns at the file offset
Available == IF fpos >= Len(file) THEN 0 ELSE Min(SizeofCur, Len(file) - fpos)

\* lines 133-138: pos = lseek(fd, 0, SEEK_CUR); read; zero bytes end the scan
ReadSlot ==
    /\ pc = "read"
    /\ pos' = fpos
    /\ nread' = Available
    /\ IF Available = 0
       THEN /\ pc' = "exit0"
            /\ status' = 0
            /\ UNCHANGED <<cur, fpos>>
       ELSE /\ cur' = Put(cur, 0, Bytes(file, fpos, Available))
            /\ fpos' = fpos + Available
            /\ pc' = "validate"
            /\ UNCHANGED status
    /\ UNCHANGED <<args, fname, user, linux, timediff, file, valid, stdout,
                   stderr>>
    /\ UNCHANGED authvars

\* lines 139-140: read returns -1
ReadError ==
    /\ pc = "read"
    /\ pos' = fpos
    /\ nread' = -1
    /\ Fatal("unable to read")
    /\ UNCHANGED <<args, fname, user, linux, timediff, file, fpos, cur, valid,
                   stdout>>
    /\ UNCHANGED authvars

\* validation with the diagnostics on standard error
ValidateToStderr ==
    /\ pc = "validate"
    /\ valid' = ValidEntry(cur, pos).ok
    /\ stderr' = Emit(stderr, ValidEntry(cur, pos).printed)
    /\ pc' = "seek"
    /\ UNCHANGED <<args, fname, user, linux, timediff, file, fpos, cur, pos,
                   nread, stdout, status>>
    /\ UNCHANGED authvars

\* line 142: valid = valid_entry(&cur, pos)
Validate ==
    /\ pc = "validate"
    /\ valid' = ValidEntry(cur, pos).ok
    /\ stdout' = Emit(stdout, ValidEntry(cur, pos).printed)
    /\ pc' = "seek"
    /\ UNCHANGED <<args, fname, user, linux, timediff, file, fpos, cur, pos,
                   nread, stderr, status>>
    /\ UNCHANGED authvars

\* lseek(fd, offset, SEEK_CUR): the new offset, or -1 (EINVAL) if negative
Lseek(offset) == IF fpos + offset < 0 THEN -1 ELSE fpos + offset

\* the skip done for valid records only
SkipValidOnly ==
    /\ pc = "seek"
    /\ IF valid /\ Size(cur) # 0 /\ Size(cur) # SizeofCur
       THEN LET offset == Size(cur) - SizeofCur
            IN  IF Lseek(offset) = -1
                THEN /\ Fatal("unable to seek")
                     /\ UNCHANGED fpos
                ELSE /\ fpos' = Lseek(offset)
                     /\ pc' = "convert"
                     /\ UNCHANGED <<stderr, status>>
       ELSE /\ pc' = IF valid THEN "convert" ELSE "read"
            /\ UNCHANGED <<fpos, stderr, status>>
    /\ UNCHANGED <<args, fname, user, linux, timediff, file, cur, pos, nread,
                   valid, stdout>>
    /\ UNCHANGED authvars

\* lines 143-148: skip to the end of the record by its size member
Skip ==
    /\ pc = "seek"
    /\ IF Size(cur) # 0 /\ Size(cur) # SizeofCur
       THEN LET offset == Size(cur) - SizeofCur
            IN  IF Lseek(offset) = -1
                THEN /\ Fatal("unable to seek")
                     /\ UNCHANGED fpos
                ELSE /\ fpos' = Lseek(offset)
                     /\ pc' = IF valid THEN "convert" ELSE "read"
                     /\ UNCHANGED <<stderr, status>>
       ELSE /\ pc' = IF valid THEN "convert" ELSE "read"
            /\ UNCHANGED <<fpos, stderr, status>>
    /\ UNCHANGED <<args, fname, user, linux, timediff, file, cur, pos, nread,
                   valid, stdout>>
    /\ UNCHANGED authvars

\* lines 150-151 with convert_entry lines 244-262
Convert ==
    /\ pc = "convert"
    /\ LET c == ConvertVersion(cur)
       IN  /\ cur' = c.rec
           /\ stderr' = Emit(stderr, c.warned)
           /\ pc' = IF c.ok THEN "times" ELSE "read"
    /\ UNCHANGED <<args, fname, user, linux, timediff, file, fpos, pos, nread,
                   valid, stdout, status>>
    /\ UNCHANGED authvars

\* convert_entry lines 264-268
AdjustStartTime ==
    /\ pc = "times"
    /\ cur' = ConvertStartTime(cur, timediff, linux)
    /\ pc' = "ts"
    /\ UNCHANGED <<args, fname, user, linux, timediff, file, fpos, pos, nread,
                   valid, stdout, stderr, status>>
    /\ UNCHANGED authvars

\* convert_entry lines 270-274
AdjustTs ==
    /\ pc = "ts"
    /\ cur' = ConvertTs(cur, timediff)
    /\ pc' = "dump"
    /\ UNCHANGED <<args, fname, user, linux, timediff, file, fpos, pos, nread,
                   valid, stdout, stderr, status>>
    /\ UNCHANGED authvars

\* line 152: dump_entry(&cur.v2, pos)
Dump ==
    /\ pc = "dump"
    /\ \E ttyname \in (IF Type(cur) = TS_TTY THEN BOOLEAN ELSE {FALSE}) :
          stdout' = Emit(stdout, <<DumpEntry(cur, pos, ttyname)>>)
    /\ pc' = "read"
    /\ UNCHANGED <<args, fname, user, linux, timediff, file, fpos, cur, pos,
                   nread, valid, stderr, status>>
    /\ UNCHANGED authvars

Next ==
    \/ GetoptOption
    \/ GetoptEnd
    \/ GetTime
    \/ ResolvePath
    \/ Open
    \/ ReadSlot
    \/ ReadError
    \/ Validate
    \/ Skip
    \/ Convert
    \/ AdjustStartTime
    \/ AdjustTs
    \/ Dump

Spec == Init /\ [][Next]_vars

\* one step of the scan loop (lines 132-154), read and lseek not failing
ScanStep ==
    ReadSlot \/ Validate \/ Skip \/ Convert \/ AdjustStartTime \/ AdjustTs \/ Dump

\* main runs on: inside the loop it takes its next step
FairSpec == Spec /\ WF_vars(ScanStep)

Halted == pc \in {"exit0", "usage", "fatal"}

----------------------------------------------------------------------------
(* bsdauth: strings. *)

\* the prompt the front end passes to bsdauth_verify
Prompt == <<"P", "a", "s", "s", "w", "o", "r", "d", ":", " ">>

\* what auth_challenge may return: <<>> for NULL, else <<the string>>
Challenges ==
    {<<>>,
     <<<<"o", "t", "p", " ", "9", "\n", "R", "e", "s", "p", ":", " ">>>>,
     <<<<"P", "i", "n", ":">>>>,
     <<<<"o", "k", "\n">>>>}

\* isspace(c) || c == ':'
IsSpaceOrColon(c) == c \in {" ", "\t", "\n", ":"}

\* lines 138-141: the text after the last newline of s, or s
LastLine(s) ==
    LET nl == {i \in 1..Len(s) : s[i] = "\n"}
    IN  IF nl = {} THEN s
        ELSE SubSeq(s, (CHOOSE i \in nl : \A j \in nl : j <= i) + 1, Len(s))

\* lines 147-149 stay inside the string: it holds a character that is
\* neither white space nor a colon
TrimDefined(p) == \E i \in 1..Len(p) : ~IsSpaceOrColon(p[i])

\* lines 147-149: trailing white space and colons overwritten with NUL
Trim(p) ==
    SubSeq(p, 1, CHOOSE i \in 1..Len(p) :
                     /\ ~IsSpaceOrColon(p[i])
                     /\ \A j \in (i + 1)..Len(p) : IsSpaceOrColon(p[j]))

\* line 150: easprintf(&s, "%s [echo on]: ", prompt)
EchoOn(p) == p \o <<" ", "[", "e", "c", "h", "o", " ", "o", "n", "]", ":", " ">>

----------------------------------------------------------------------------
(* bsdauth: resources. *)

\* login_close / auth_close on a resource in state r
Close(r) ==
    CASE r = "open" -> "closed"
      [] r = "closed" -> "closed twice"
      [] OTHER -> r

\* tsdump is not in use
TsOff ==
    /\ pc = "off"
    /\ args = <<>>
    /\ fname = "NULL"
    /\ user = "NULL"
    /\ linux = FALSE
    /\ timediff = [sec |-> 0, nsec |-> 0]
    /\ file = <<>>
    /\ fpos = 0
    /\ cur = <<>>
    /\ pos = 0
    /\ nread = 0
    /\ valid = FALSE
    /\ stdout = <<>>
    /\ stderr = <<>>
    /\ status = -1

\* the auth method before bsdauth_init: auth->data is NULL
AuthInit ==
    /\ TsOff
    /\ apc = "start"
    /\ lc = "none"
    /\ as = "none"
    /\ authData = FALSE
    /\ loginStyle \in {"NULL", "skey"}
    /\ sigchld \in {"handler", "SIG_IGN"}
    /\ passbuf = "none"
    /\ shown = <<>>
    /\ logged = <<>>
    /\ osa = "unset"
    /\ pass = "NULL"
    /\ rval = "none"
    /\ call = [name |-> "none"]
    /\ nverify = 0

----------------------------------------------------------------------------
(* bsdauth: the entry points. *)

\* log_warning(flags, message)
LogWarning(msg) == logged' = Append(logged, msg)

\* lines 64-108: bsdauth_init
BsdauthInit ==
    /\ apc = "start"
    /\ \E pwClass \in {"", "staff"}, pwUid \in {0, 1000}, gotClass \in BOOLEAN :
       \E opened \in (IF gotClass THEN BOOLEAN ELSE {FALSE}) :
       \E style \in (IF opened THEN {"NULL", "passwd"} ELSE {"NULL"}) :
       \E failItem \in (IF style # "NULL" THEN 0..3 ELSE {0}) :
          /\ call' = [name |-> "init",
                      class |-> IF pwClass # "" THEN pwClass
                                ELSE IF pwUid # 0 THEN "LOGIN_DEFCLASS"
                                ELSE "LOGIN_DEFROOTCLASS",
                      gotClass |-> gotClass, opened |-> opened,
                      style |-> style, failItem |-> failItem]
          /\ IF ~gotClass
             THEN /\ lc' = "none"
                  /\ LogWarning("unable to get login class for user")
                  /\ rval' = "AUTH_FATAL"
                  /\ UNCHANGED <<as, loginStyle, authData>>
             ELSE IF ~opened
             THEN /\ lc' = Close("open")
                  /\ as' = "none"
                  /\ LogWarning("unable to begin bsd authentication")
                  /\ rval' = "AUTH_FATAL"
                  /\ UNCHANGED <<loginStyle, authData>>
             ELSE IF style = "NULL"
             THEN /\ loginStyle' = "NULL"
                  /\ LogWarning("invalid authentication type")
                  /\ as' = Close("open")
                  /\ lc' = Close("open")
                  /\ rval' = "AUTH_FATAL"
                  /\ UNCHANGED authData
             ELSE IF failItem # 0
             THEN /\ loginStyle' = style
                  /\ LogWarning("unable to initialize BSD authentication")
                  /\ as' = Close("open")
                  /\ lc' = Close("open")
                  /\ rval' = "AUTH_FATAL"
                  /\ UNCHANGED authData
             ELSE /\ loginStyle' = style
                  /\ lc' = "open"
                  /\ as' = "open"
                  /\ authData' = TRUE
                  /\ rval' = "AUTH_SUCCESS"
                  /\ UNCHANGED logged
    /\ apc' = IF rval' = "AUTH_SUCCESS" THEN "ready" ELSE "failed"
    /\ UNCHANGED <<sigchld, passbuf, shown, osa, pass, nverify>>
    /\ UNCHANGED tsvars

\* lines 118-125: bsdauth_verify is entered, SIGCHLD goes to SIG_DFL
VerifyEnter ==
    /\ apc = "ready"
    /\ nverify < MaxVerify
    /\ nverify' = nverify + 1
    /\ osa' = sigchld
    /\ sigchld' = "SIG_DFL"
    /\ pass' = "NULL"
    /\ call' = [name |-> "verify"]
    /\ apc' = "challenge"
    /\ UNCHANGED <<lc, as, authData, loginStyle, passbuf, shown, logged, rval>>
    /\ UNCHANGED tsvars

\* auth_getpass(text, timeout, echo): the text displayed
Getpass(text, echo) == [text |-> text, echo |-> echo]

\* the buffer auth_getpass returns for an answer
Buffer(answer) == IF answer = "NULL" THEN "none" ELSE answer

\* lines 133-155: the challenge and the prompts
VerifyPrompt ==
    /\ apc = "challenge"
    /\ \E chal \in Challenges, first \in {"NULL", "empty", "secret"} :
       \E second \in (IF chal # <<>> /\ first = "empty"
                      THEN {"NULL", "empty", "secret"} ELSE {"NULL"}) :
          /\ call' = [name |-> "verify", chal |-> chal, first |-> first,
                      second |-> second]
          /\ IF chal = <<>> \/ first # "empty"
             THEN /\ shown' = Append(shown, Getpass(Prompt, FALSE))
                  /\ pass' = first
                  /\ passbuf' = Buffer(first)
                  /\ apc' = "respond"
             ELSE IF TrimDefined(LastLine(chal[1]))
             THEN /\ shown' = shown \o <<Getpass(Prompt, FALSE),
                                         Getpass(Trim(LastLine(chal[1])), TRUE)>>
                  /\ pass' = second
                  /\ passbuf' = Buffer(second)
                  /\ apc' = "respond"
             ELSE \* prompt[len] is read and written outside the string
                  \/ /\ shown' = Append(shown, Getpass(Prompt, FALSE))
                     /\ pass' = first
                     /\ passbuf' = Buffer(first)
                     /\ apc' = "crashed"
                  \/ /\ shown' = shown \o <<Getpass(Prompt, FALSE),
                                            Getpass(<<>>, TRUE)>>
                     /\ pass' = second
                     /\ passbuf' = Buffer(second)
                     /\ apc' = "respond"
    /\ UNCHANGED <<lc, as, authData, loginStyle, sigchld, logged, osa, rval,
                   nverify>>
    /\ UNCHANGED tsvars

\* the verdict returned before the old signal handler is restored when the
\* response was accepted
VerifyRespondEarlyReturn ==
    /\ apc = "respond"
    /\ \E accept \in (IF pass # "NULL" THEN BOOLEAN ELSE {FALSE}) :
       \E errormsg \in (IF pass # "NULL" /\ ~accept THEN {"NULL", "msg"}
                        ELSE {"NULL"}) :
          /\ call' = [name |-> "verify", chal |-> call.chal,
                      first |-> call.first, second |-> call.second,
                      accept |-> accept, errormsg |-> errormsg]
          /\ passbuf' = IF pass # "NULL" THEN "zeroed" ELSE passbuf
          /\ IF pass # "NULL" /\ accept
             THEN rval' = "AUTH_SUCCESS" /\ UNCHANGED <<logged, sigchld>>
             ELSE /\ sigchld' = osa
                  /\ IF pass = "NULL"
                     THEN rval' = "AUTH_INTR" /\ UNCHANGED logged
                     ELSE /\ rval' = "AUTH_FAILURE"
                          /\ IF errormsg # "NULL" THEN LogWarning(errormsg)
                             ELSE UNCHANGED logged
    /\ apc' = "ready"
    /\ UNCHANGED <<lc, as, authData, loginStyle, shown, osa, pass, nverify>>
    /\ UNCHANGED tsvars

\* lines 157-174: the response is checked, SIGCHLD restored, the verdict
VerifyRespond ==
    /\ apc = "respond"
    /\ \E accept \in (IF pass # "NULL" THEN BOOLEAN ELSE {FALSE}) :
       \E errormsg \in (IF pass # "NULL" /\ ~accept THEN {"NULL", "msg"}
                        ELSE {"NULL"}) :
          /\ call' = [name |-> "verify", chal |-> call.chal,
                      first |-> call.first, second |-> call.second,
                      accept |-> accept, errormsg |-> errormsg]
          /\ passbuf' = IF pass # "NULL" THEN "zeroed" ELSE passbuf
          /\ IF pass # "NULL" /\ accept
             THEN rval' = "AUTH_SUCCESS" /\ UNCHANGED logged
             ELSE IF pass = "NULL"
             THEN rval' = "AUTH_INTR" /\ UNCHANGED logged
             ELSE /\ rval' = "AUTH_FAILURE"
                  /\ IF errormsg # "NULL" THEN LogWarning(errormsg)
                     ELSE UNCHANGED logged
    /\ sigchld' = osa
    /\ apc' = "ready"
    /\ UNCHANGED <<lc, as, authData, loginStyle, shown, osa, pass, nverify>>
    /\ UNCHANGED tsvars

\* bsdauth_cleanup without the login_close
BsdauthCleanupSessionOnly ==
    /\ apc \in {"ready", "failed"}
    /\ IF authData
       THEN as' = Close(as) /\ UNCHANGED lc
       ELSE UNCHANGED <<as, lc>>
    /\ rval' = "AUTH_SUCCESS"
    /\ call' = [name |-> "cleanup"]
    /\ apc' = "done"
    /\ UNCHANGED <<authData, loginStyle, sigchld, passbuf, shown, logged, osa,
                   pass, nverify>>
    /\ UNCHANGED tsvars

\* lines 176-188: bsdauth_cleanup
BsdauthCleanup ==
    /\ apc \in {"ready", "failed"}
    /\ IF authData
       THEN as' = Close(as) /\ lc' = Close(lc)
       ELSE UNCHANGED <<as, lc>>
    /\ rval' = "AUTH_SUCCESS"
    /\ call' = [name |-> "cleanup"]
    /\ apc' = "done"
    /\ UNCHANGED <<authData, loginStyle, sigchld, passbuf, shown, logged, osa,
                   pass, nverify>>
    /\ UNCHANGED tsvars

AuthNext ==
    \/ BsdauthInit
    \/ VerifyEnter
    \/ VerifyPrompt
    \/ VerifyRespond
    \/ BsdauthCleanup

AuthSpec == AuthInit /\ [][AuthNext]_vars

----------------------------------------------------------------------------
(* What the claims speak of. *)

InScan == pc \in {"read", "validate", "seek", "convert", "times", "ts", "dump"}

\* the slot of this iteration has been read and is being processed
InSlot == pc \in {"validate", "seek", "convert", "times", "ts", "dump"}

\* the header check of section 4.2, on the (version, size) of a slot
HeaderOk(version, size) ==
    \/ version = 1 /\ size = SizeofV1
    \/ version = 2 /\ size = SizeofV2

\* f from byte offset o on is a concatenation of well-formed records
RECURSIVE WellFormedFrom(_, _)
WellFormedFrom(f, o) ==
    \/ o = Len(f)
    \/ /\ o + 4 <= Len(f)
       /\ HeaderOk(U16(f, o), U16(f, o + 2))
       /\ o + U16(f, o + 2) <= Len(f)
       /\ WellFormedFrom(f, o + U16(f, o + 2))

\* the byte offsets at which the records of a well-formed f start
RECURSIVE RecordStarts(_, _)
RecordStarts(f, o) ==
    IF o >= Len(f) THEN <<>> ELSE <<o>> \o RecordStarts(f, o + U16(f, o + 2))

Positions(events) == [i \in 1..Len(events) |-> events[i].pos]

IsPrefix(a, b) == Len(a) <= Len(b) /\ \A i \in 1..Len(a) : a[i] = b[i]

FatalMessages == {stderr[i].msg : i \in {j \in 1..Len(stderr) : stderr[j].kind = "fatal"}}

----------------------------------------------------------------------------
(* C1: for every log file the scan loop eventually stops, on a zero-byte
   read (exit 0) or on a fatal read/seek error; it never loops forever
   re-reading the same offsets.  Stated for the scan once the file is open,
   and refuted under FairSpec by a log whose last record is version 1 with
   a tv_nsec that reads as a header of size 40 (RecTty1). *)
C1_ScanTerminates == (pc = "read") ~> Halted

(* C2: for a log that is a flat concatenation of well-formed v1/v2 records
   the scan prints exactly one block per record, in file order, at the
   record's byte offset, prints no validator diagnostic, is not aborted by
   a seek, and exits 0 having printed a block for every record. *)
C2_WellFormedLogScan ==
    (InScan \/ Halted) /\ WellFormedFrom(file, 0) =>
        /\ \A i \in 1..Len(stdout) : stdout[i].kind = "block"
        /\ IsPrefix(Positions(stdout), RecordStarts(file, 0))
        /\ "unable to seek" \notin FatalMessages
        /\ pc = "exit0" => Positions(stdout) = RecordStarts(file, 0)

(* C3: a read of n bytes with 0 < n < slot size aborts the scan
   at once, so no partial slot is ever validated, seeked for or rendered. *)
C3_ShortReadAborts == InSlot => nread = SizeofCur

(* C4: a slot that fails validation produces no block and never aborts the
   scan: from the seek that follows its validation the scan goes to the
   next read. *)
C4_InvalidSlotNeverAborts ==
    [][pc = "seek" /\ ~valid => pc' = "read" /\ stdout' = stdout]_vars

(* C5: valid_entry returns true exactly when (version, size) is (1, sizeof
   v1) or (2, sizeof v2); otherwise it returns false and prints exactly one
   diagnostic, which names the offset and the raw version (unknown
   version) or the actual and the expected size (size mismatch); it changes
   neither the slot buffer nor the file offset. *)
C5_ValidEntryVerdict ==
    [][pc = "validate" =>
          LET v == Version(cur)
              sz == Size(cur)
              d == stdout'[Len(stdout')]
          IN  /\ valid' = HeaderOk(v, sz)
              /\ UNCHANGED <<cur, fpos, pos, stderr>>
              /\ HeaderOk(v, sz) => stdout' = stdout
              /\ ~HeaderOk(v, sz) /\ Len(stdout) < MaxOut =>
                    /\ Len(stdout') = Len(stdout) + 1
                    /\ SubSeq(stdout', 1, Len(stdout)) = stdout
                    /\ d.pos = pos
                    /\ v \notin {1, 2} =>
                          d.kind = "unknown time stamp entry version" /\ d.got = v
                    /\ v = 1 =>
                          /\ d.kind = "wrong sized v1 record"
                          /\ d.got = sz /\ d.expected = SizeofV1
                    /\ v = 2 =>
                          /\ d.kind = "wrong sized v2 record"
                          /\ d.got = sz /\ d.expected = SizeofV2]_vars

\* valid_entry has just rejected a v1 slot for its size
C5_Witness ==
    /\ pc = "seek" /\ ~valid
    /\ Version(cur) = 1 /\ Size(cur) # SizeofV1
    /\ stdout # <<>> /\ stdout[Len(stdout)].kind = "wrong sized v1 record"

(* C6: after a slot flagged Invalid for a size mismatch the
   driver does no seek by the declared size: the next slot is read at the
   offset of this slot + the slot size (stated for slots read in full). *)
C6_NoSeekOnSizeMismatch ==
    [][pc = "seek" /\ ~valid /\ Version(cur) \in {1, 2} /\ nread = SizeofCur
          => pc' = "read" /\ fpos' = pos + SizeofCur]_vars

DiagKinds ==
    {"unknown time stamp entry version", "wrong sized v1 record",
     "wrong sized v2 record"}

C8_ConvertV1 ==
    [][/\ pc = "convert" /\ Version(cur) = 1 =>
             /\ pc' = "times"
             /\ Bytes(cur', 0, 8) = Bytes(cur, 0, 8)
             /\ AuthUid(cur') = AuthUid(cur)
             /\ Sid(cur') = Sid(cur)
             /\ Ts(cur') = TsV1(cur)
             /\ IsZero(StartTime(cur'))
             /\ Type(cur) = TS_TTY => TtyDev(cur') = TtyDevV1(cur)
             /\ Type(cur) = TS_PPID => Ppid(cur') = PpidV1(cur)
             /\ Type(cur) \notin {TS_TTY, TS_PPID} => IsZero(TtyDev(cur'))
       /\ pc \in {"times", "ts"} /\ Version(cur) = 1 =>
             /\ IsZero(StartTime(cur'))
             /\ Bytes(cur', 0, 16) = Bytes(cur, 0, 16)
             /\ TtyDev(cur') = TtyDev(cur)
      ]_vars

\* a converted v1 record of type GLOBAL, whose union was not zero on disk,
\* is about to be rendered
C8_Witness ==
    /\ pc = "dump" /\ Version(cur) = 1 /\ nread >= SizeofV1
    /\ Type(cur) = TS_GLOBAL
    /\ ~IsZero(Bytes(file, pos + OffUV1, 8))

\* the 16 bytes n of a struct timespec are the 16 bytes o plus timediff
PlusOffset(o, n) ==
    /\ Small(Bytes(o, 0, 8)) /\ Small(Bytes(o, 8, 8))
    /\ Small(Bytes(n, 0, 8)) /\ Small(Bytes(n, 8, 8))
    /\ ToInt(Bytes(n, 8, 8)) < 1000000000
    /\ \E k \in 0..1 :
          /\ ToInt(Bytes(n, 8, 8)) + k * 1000000000
                = ToInt(Bytes(o, 8, 8)) + timediff.nsec
          /\ ToInt(Bytes(n, 0, 8)) = ToInt(Bytes(o, 0, 8)) + timediff.sec + k

\* the slot being rendered is a v2 record read in full
RenderingV2 == pc = "dump" /\ Version(cur) = 2 /\ nread = SizeofCur

(* C9, as claimed: for a well-formed v2 record both time fields end up
   equal to original + offset when set on disk and unset when unset on
   disk. *)
C9_BothTimesShifted ==
    RenderingV2 =>
        LET orig == Bytes(file, pos, SizeofCur)
        IN  /\ IF IsZero(Ts(orig)) THEN IsZero(Ts(cur))
               ELSE PlusOffset(Ts(orig), Ts(cur))
            /\ IF IsZero(StartTime(orig)) THEN IsZero(StartTime(cur))
               ELSE PlusOffset(StartTime(orig), StartTime(cur))

(* C9, amended: for a well-formed v2 record the pipeline leaves version,
   size, type, flags, auth_uid, session id and scope value unchanged; the
   time stamp ends up equal to original + offset when set on disk;
   start_time ends up equal to original + offset when set on disk in a
   build for Linux and exactly as read in any other build; a time field
   unset on disk stays unset and is not rendered. *)
C9_V2Pipeline ==
    [][RenderingV2 /\ Len(stdout) < MaxOut =>
          LET orig == Bytes(file, pos, SizeofCur)
              lines == stdout'[Len(stdout')].lines
              labels == {lines[i].label : i \in 1..Len(lines)}
          IN  /\ Bytes(cur, 0, 16) = Bytes(orig, 0, 16)
              /\ TtyDev(cur) = TtyDev(orig)
              /\ IF IsZero(Ts(orig)) THEN IsZero(Ts(cur))
                 ELSE PlusOffset(Ts(orig), Ts(cur))
              /\ IF IsZero(StartTime(orig)) THEN IsZero(StartTime(cur))
                 ELSE IF linux THEN PlusOffset(StartTime(orig), StartTime(cur))
                 ELSE StartTime(cur) = StartTime(orig)
              /\ Len(stdout') = Len(stdout) + 1
              /\ lines[2].val = Version(orig) /\ lines[3].val = Size(orig)
              /\ lines[4].val = Type2String(Type(orig))
              /\ lines[6].val = AuthUid(orig) /\ lines[7].val = Sid(orig)
              /\ IsZero(Ts(orig)) => "time stamp" \notin labels
              /\ IsZero(StartTime(orig)) => "start time" \notin labels
              /\ \A i \in 1..Len(lines) :
                    /\ lines[i].label = "time stamp" =>
                          lines[i].val = Bytes(Ts(cur), 0, 8)
                    /\ lines[i].label = "start time" =>
                          lines[i].val = Bytes(StartTime(cur), 0, 8)
                    /\ lines[i].label = "parent pid" =>
                          lines[i].val = Ppid(orig)
                    /\ lines[i].label = "terminal" =>
                          lines[i].val.dev \in
                              {TtyDev(orig), Bytes(TtyDev(orig), 0, 4)}
         ]_vars

\* a v2 record with both times set on disk is about to be rendered
C9_Witness ==
    /\ RenderingV2
    /\ ~IsZero(Ts(Bytes(file, pos, SizeofCur)))
    /\ ~IsZero(StartTime(Bytes(file, pos, SizeofCur)))

(* C10, as claimed: with at most one of -f and -u supplied, option handling
   never ends in the usage error. *)
C10_UsageOnlyWhenBoth == pc = "usage" => fname # "NULL" /\ user # "NULL"

(* C10, amended: with both -f and -u supplied the program warns, prints
   usage and exits 1 before the log is opened and before anything is read
   or rendered; with at most one of them supplied option handling ends in
   the usage error only when getopt reports an unrecognised option or a
   missing option argument. *)
C10_UsageErrors ==
    [][/\ pc = "getopt" /\ args = <<>> /\ fname # "NULL" /\ user # "NULL" =>
             /\ pc' = "usage" /\ status' = 1
             /\ Len(stderr') = 2
             /\ stderr'[1].kind = "warnx" /\ stderr'[2].kind = "usage"
       /\ pc' = "usage" =>
             /\ pc = "getopt"
             /\ \/ args = <<>> /\ fname # "NULL" /\ user # "NULL"
                \/ args # <<>> /\ Head(args) = "?"
             /\ file' = <<>> /\ nread' = 0 /\ stdout' = <<>>
       /\ pc = "usage" => FALSE
      ]_vars

\* usage printed because both -f and -u were given
C10_Witness == pc = "usage" /\ fname = "optarg" /\ user = "optarg"

\* what one iteration prints for the slot buffer u read at offset p: the
\* verdict, the diagnostic, and the block (terminal names not resolved)
IterationOutput(u, p) ==
    LET v == ValidEntry(u, p)
        c == ConvertVersion(u)
    IN  [ok |-> v.ok, printed |-> v.printed,
         block |-> IF v.ok /\ c.ok
                   THEN <<DumpEntry(ConvertTs(ConvertStartTime(c.rec, timediff, linux),
                                              timediff), p, FALSE)>>
                   ELSE <<>>]

\* what the slot buffer may hold when a scan with this time offset arrives
\* at offset p: at 0 the stack contents, at the slot size the converted
\* form of a v2 record that filled the first slot
EarlierBuffers(p) ==
    IF p = 0 THEN StackContents
    ELSE IF p = SizeofCur
    THEN {ConvertTs(ConvertStartTime(t, timediff, linux), timediff) :
             t \in {RecTty2, RecPpid2, RecGlobal2}}
    ELSE {}

(* C11: what an iteration prints depends only on the bytes its read
   returned, the offset and the time offset: had the slot buffer held
   anything else an earlier part of a scan can leave in it at this offset,
   the verdict, the diagnostic and the block would be the same. *)
C11_OutputFromReadBytesOnly ==
    pc = "validate" =>
        \A u \in EarlierBuffers(pos) :
            IterationOutput(Put(u, 0, Bytes(file, pos, nread)), pos)
                = IterationOutput(cur, pos)

\* where the iteration after a slot read in full at p starts
NextOffset(p, size) == p + (IF size = 0 THEN SizeofCur ELSE size)

(* C12: after a read that returned a full slot, valid or not, the seek
   never fails and leaves the cursor at offset + declared size (offset +
   slot size when the declared size is zero); nothing else in the
   iteration moves the cursor, and the next read takes place there. *)
C12_CursorAdvance ==
    [][/\ pc = "seek" /\ nread = SizeofCur =>
             /\ pc' # "fatal"
             /\ fpos' = NextOffset(pos, Size(cur))
       /\ pc \in {"validate", "convert", "times", "ts", "dump"} => fpos' = fpos
       /\ pc = "read" /\ nread = SizeofCur =>
             /\ fpos = NextOffset(pos, U16(file, pos + OffSize))
             /\ pos' = fpos
      ]_vars

\* the next read follows a slot read in full and flagged Invalid for its
\* size, at offset + declared size
C12_Witness ==
    /\ pc = "read" /\ ~valid /\ nread = SizeofCur
    /\ Version(cur) \in {1, 2}
    /\ Size(cur) \notin {0, SizeofCur}
    /\ fpos = pos + Size(cur)

\* the time stamp the slot read at pos holds in the file, if the read
\* returned all of it: <<the 16 bytes>>, else <<>>
TsRead ==
    LET off == IF U16(file, pos + OffVersion) = 1 THEN OffTsV1 ELSE OffTsV2
    IN  IF nread >= off + 16 THEN <<Bytes(file, pos + off, 16)>> ELSE <<>>

\* the same for start_time, which only the v2 layout has
StartTimeRead ==
    IF U16(file, pos + OffVersion) = 2 /\ nread >= OffStartV2 + 16
    THEN <<Bytes(file, pos + OffStartV2, 16)>> ELSE <<>>

(* C13: the time offset does not change during the scan, and every
   time stamp or start_time that dump_entry renders is a value read from
   the file in the same iteration + the offset (start_time: as read, in a
   build that does not adjust it), whatever slots came before, short ones
   included. *)
C13_NormalizedOnce ==
    [][/\ InScan => timediff' = timediff
       /\ pc = "dump" /\ TimespecIsSet(Ts(cur)) =>
             /\ TsRead # <<>>
             /\ PlusOffset(TsRead[1], Ts(cur))
       /\ pc = "dump" /\ TimespecIsSet(StartTime(cur)) =>
             /\ StartTimeRead # <<>>
             /\ IF linux THEN PlusOffset(StartTimeRead[1], StartTime(cur))
                ELSE StartTimeRead[1] = StartTime(cur)
      ]_vars

(* C14: the start_time step of convert_entry follows the platform flag:
   with the flag on a set start_time is advanced by the offset and an unset
   one stays unset, with the flag off start_time is left as it is; the
   time stamp step advances a set time stamp by the offset and leaves an
   unset one unset under either flag; neither step touches another field. *)
C14_PlatformFlag ==
    [][/\ pc = "times" =>
             /\ pc' = "ts"
             /\ Bytes(cur', 0, OffStartV2) = Bytes(cur, 0, OffStartV2)
             /\ Bytes(cur', OffTsV2, 24) = Bytes(cur, OffTsV2, 24)
             /\ IF ~linux THEN StartTime(cur') = StartTime(cur)
                ELSE IF IsZero(StartTime(cur)) THEN IsZero(StartTime(cur'))
                ELSE PlusOffset(StartTime(cur), StartTime(cur'))
       /\ pc = "ts" =>
             /\ pc' = "dump"
             /\ Bytes(cur', 0, OffTsV2) = Bytes(cur, 0, OffTsV2)
             /\ TtyDev(cur') = TtyDev(cur)
             /\ IF IsZero(Ts(cur)) THEN IsZero(Ts(cur'))
                ELSE PlusOffset(Ts(cur), Ts(cur'))
      ]_vars

\* a build with the flag off is about to render a record read in full whose
\* start_time and time stamp are both set: the first as read, the second
\* advanced
C14_Witness ==
    /\ pc = "dump" /\ ~linux /\ nread = SizeofCur /\ Version(cur) = 2
    /\ TimespecIsSet(StartTime(cur))
    /\ StartTime(cur) = Bytes(file, pos + OffStartV2, 16)
    /\ TimespecIsSet(Ts(cur))
    /\ Ts(cur) # Bytes(file, pos + OffTsV2, 16)

\* the flags line as the claim states it: the two names in order, then the
\* other bits in hexadecimal if there are any, ", " between the items
FlagsLine(flags) ==
    LET names == (IF (flags \div TS_DISABLED) % 2 = 1
                  THEN <<[name |-> "TS_DISABLED", hex |-> 0]>> ELSE <<>>)
                 \o (IF (flags \div TS_ANYUID) % 2 = 1
                     THEN <<[name |-> "TS_ANYUID", hex |-> 0]>> ELSE <<>>)
        rest == flags - (flags % 4)
        items == names \o (IF rest # 0 THEN <<[name |-> "0x", hex |-> rest]>>
                           ELSE <<>>)
    IN  [i \in 1..(IF items = <<>> THEN 0 ELSE 2 * Len(items) - 1) |->
            IF i % 2 = 1 THEN items[(i + 1) \div 2]
            ELSE [name |-> ", ", hex |-> 0]]

\* the slot buffer u with the ANYUID bit of its flags cleared
WithoutAnyUid(u) == Put(u, OffFlags, LE(Clr(Flags(u), TS_ANYUID), 2))

\* the lines of a block other than the flags line
OtherLines(block) ==
    [i \in 1..(Len(block.lines) - 1) |->
        IF i < 5 THEN block.lines[i] ELSE block.lines[i + 1]]

(* C15: the flags line of every rendered block lists TS_DISABLED, then
   TS_ANYUID, then the other bits as one hexadecimal value when they are
   not zero, separated by ", ", and nothing for flags 0; the ANYUID bit
   changes neither the verdict, nor the diagnostic, nor the seek, nor any
   other line of the block. *)
C15_FlagsLine ==
    [][/\ pc = "dump" /\ Len(stdout) < MaxOut =>
             /\ stdout'[Len(stdout')].lines[5].label = "flags"
             /\ stdout'[Len(stdout')].lines[5].val = FlagsLine(Flags(cur))
       /\ pc = "validate" =>
             LET with == IterationOutput(cur, pos)
                 without == IterationOutput(WithoutAnyUid(cur), pos)
             IN  /\ with.ok = without.ok
                 /\ with.printed = without.printed
                 /\ Len(with.block) = Len(without.block)
                 /\ with.block # <<>> =>
                       OtherLines(with.block[1]) = OtherLines(without.block[1])
                 /\ valid' = with.ok
       /\ pc = "seek" /\ IsSet(Flags(cur), TS_ANYUID) /\ valid =>
             /\ pc' = "convert"
             /\ fpos' - fpos = IF Size(cur) \in {0, SizeofCur} THEN 0
                               ELSE Size(cur) - SizeofCur
      ]_vars

\* the last block printed has DISABLED, ANYUID and other bits on its flags
\* line
C15_Witness ==
    /\ stdout # <<>>
    /\ stdout[Len(stdout)].kind = "block"
    /\ Len(stdout[Len(stdout)].lines[5].val) = 5
    /\ stdout[Len(stdout)].lines[5].val[3].name = "TS_ANYUID"

\* the labels of a block's lines, in order
Labels(block) == [i \in 1..Len(block.lines) |-> block.lines[i].label]

\* the line of a block with this label (the first one)
LineOf(block, l) ==
    block.lines[CHOOSE i \in 1..Len(block.lines) : block.lines[i].label = l]

(* C16: every block is, in order: position, version, size, type, flags,
   auth uid, session ID, a start-time line iff start_time is set, a
   time-stamp line iff the time stamp is set, a terminal line iff the type
   is TTY (the name, or the device number when no name is found), a
   parent-pid line iff the type is PPID, and a blank line; a type other
   than GLOBAL, TTY, PPID, LOCKEXCL is shown as UNKNOWN with its value in
   hexadecimal and gets no trailer. *)
C16_BlockLayout ==
    [][pc = "dump" /\ Len(stdout) < MaxOut =>
          LET block == stdout'[Len(stdout')]
              known == [t \in {TS_GLOBAL, TS_TTY, TS_PPID, TS_LOCKEXCL} |->
                           CASE t = TS_GLOBAL -> "TS_GLOBAL"
                             [] t = TS_TTY -> "TS_TTY"
                             [] t = TS_PPID -> "TS_PPID"
                             [] OTHER -> "TS_LOCKEXCL"]
          IN  /\ Len(stdout') = Len(stdout) + 1
              /\ block.kind = "block"
              /\ Labels(block) =
                    <<"position", "version", "size", "type", "flags",
                      "auth uid", "session ID">>
                    \o (IF IsZero(StartTime(cur)) THEN <<>> ELSE <<"start time">>)
                    \o (IF IsZero(Ts(cur)) THEN <<>> ELSE <<"time stamp">>)
                    \o (IF Type(cur) = TS_TTY THEN <<"terminal">> ELSE <<>>)
                    \o (IF Type(cur) = TS_PPID THEN <<"parent pid">> ELSE <<>>)
                    \o <<"">>
              /\ LineOf(block, "position").val = pos
              /\ LineOf(block, "type").val =
                    IF Type(cur) \in DOMAIN known
                    THEN [name |-> known[Type(cur)], hex |-> 0]
                    ELSE [name |-> "UNKNOWN", hex |-> Type(cur)]
              /\ Type(cur) = TS_TTY =>
                    \/ LineOf(block, "terminal").val =
                          [name |-> TRUE, dev |-> TtyDev(cur)]
                    \/ LineOf(block, "terminal").val =
                          [name |-> FALSE, dev |-> Bytes(TtyDev(cur), 0, 4)]
              /\ Type(cur) = TS_PPID =>
                    LineOf(block, "parent pid").val = Ppid(cur)
         ]_vars

\* the last block printed is of an unknown type: a time stamp, no trailer
C16_Witness ==
    /\ stdout # <<>>
    /\ stdout[Len(stdout)].kind = "block"
    /\ LineOf(stdout[Len(stdout)], "type").val = [name |-> "UNKNOWN", hex |-> 9]
    /\ Labels(stdout[Len(stdout)]) =
          <<"position", "version", "size", "type", "flags", "auth uid",
            "session ID", "time stamp", "">>

(* C19: convert_entry is called only on slots valid_entry accepted, so it
   never takes its "unexpected record version" branch and always returns
   true; every slot that passes validation goes on to be converted and is
   rendered once before the next read. *)
C19_ValidSlotsRendered ==
    [][/\ pc = "seek" /\ valid => pc' = "convert"
       /\ pc = "convert" =>
             /\ valid /\ Version(cur) \in {1, TS_VERSION}
             /\ pc' = "times" /\ stderr' = stderr
       /\ pc \in {"times", "ts"} => pc' \in {"ts", "dump"} /\ stdout' = stdout
       /\ pc = "dump" => pc' = "read" /\ valid
       /\ pc' = "dump" => pc = "ts"
      ]_vars

\* whether the prompts of this call of bsdauth_verify obtained a password
Obtained(c) ==
    IF c.chal # <<>> /\ c.first = "empty" THEN c.second # "NULL"
    ELSE c.first # "NULL"

(* C17: bsdauth_verify returns AUTH_SUCCESS iff a password was obtained
   and the backend accepted it, AUTH_INTR iff none was obtained, and
   AUTH_FAILURE otherwise; the backend's error message is logged only on
   AUTH_FAILURE; when it returns, SIGCHLD has the disposition it had on
   entry and the password buffer holds zeros. *)
C17_VerifyVerdict ==
    [][/\ apc = "ready" /\ apc' = "challenge" => osa' = sigchld
       /\ apc = "challenge" => osa' = osa
       /\ apc = "respond" =>
             /\ apc' = "ready"
             /\ rval' \in {"AUTH_SUCCESS", "AUTH_INTR", "AUTH_FAILURE"}
             /\ rval' = "AUTH_SUCCESS" <=> Obtained(call) /\ call'.accept
             /\ rval' = "AUTH_INTR" <=> ~Obtained(call)
             /\ logged' # logged =>
                   /\ rval' = "AUTH_FAILURE"
                   /\ logged' = Append(logged, call'.errormsg)
             /\ rval' = "AUTH_FAILURE" /\ call'.errormsg # "NULL" =>
                   logged' # logged
             /\ sigchld' = osa /\ sigchld' # "SIG_DFL"
             /\ Obtained(call) => passbuf' = "zeroed"
             /\ passbuf' \notin {"secret", "empty"}
      ]_vars

\* bsdauth_verify has returned AUTH_FAILURE for a password the backend
\* rejected with an error message
C17_Witness ==
    /\ apc = "ready" /\ rval = "AUTH_FAILURE"
    /\ call.name = "verify" /\ call.first = "secret" /\ call.errormsg = "msg"
    /\ logged # <<>> /\ logged[Len(logged)] = "msg"
    /\ passbuf = "zeroed"
    /\ sigchld = "handler"

(* C18: when the backend supplies a challenge, bsdauth_verify shows it in
   place of the normal prompt; when the user then answers with an empty
   response it prompts once more with echo on, showing the last line of the
   challenge without its trailing white space and colons, followed by
   " [echo on]: ". *)
C18_ChallengePrompt ==
    [][apc = "challenge" /\ apc' = "respond" /\ call'.chal # <<>> =>
          LET new == SubSeq(shown', Len(shown) + 1, Len(shown'))
              last == LastLine(call'.chal[1])
          IN  /\ new[1] = [text |-> call'.chal[1], echo |-> FALSE]
              /\ call'.first = "empty" /\ TrimDefined(last) =>
                    /\ Len(new) = 2
                    /\ new[2] = [text |-> EchoOn(Trim(last)), echo |-> TRUE]
         ]_vars

(* C20: when bsdauth_init returns AUTH_FATAL, what it had acquired (the
   login class, the auth session) has been released once and auth->data
   is not set; when it returns AUTH_SUCCESS both are open and auth->data
   is set; bsdauth_verify leaves both alone; bsdauth_cleanup closes both
   once when auth->data is set and does nothing otherwise; after
   init, verify*, cleanup nothing is left open and nothing was closed
   twice. *)
C20_ResourceLifecycle ==
    [][/\ apc = "start" =>
             /\ rval' \in {"AUTH_FATAL", "AUTH_SUCCESS"}
             /\ rval' = "AUTH_FATAL" =>
                   /\ lc' = IF call'.gotClass THEN "closed" ELSE "none"
                   /\ as' = IF call'.opened THEN "closed" ELSE "none"
                   /\ ~authData'
                   /\ apc' = "failed"
             /\ rval' = "AUTH_SUCCESS" =>
                   /\ lc' = "open" /\ as' = "open" /\ authData'
                   /\ apc' = "ready"
       /\ apc \in {"ready", "challenge", "respond"} /\ apc' # "done" =>
             UNCHANGED <<lc, as, authData>>
       /\ apc' = "done" =>
             /\ IF authData THEN lc = "open" /\ as = "open"
                                 /\ lc' = "closed" /\ as' = "closed"
                ELSE UNCHANGED <<lc, as>>
             /\ lc' \in {"none", "closed"} /\ as' \in {"none", "closed"}
       /\ lc' # "closed twice" /\ as' # "closed twice"
      ]_vars

\* bsdauth_cleanup has closed what a successful bsdauth_init opened, after
\* bsdauth_verify ran
C20_Witness ==
    /\ apc = "done" /\ authData /\ nverify > 0
    /\ lc = "closed" /\ as = "closed"

====
